---- MODULE Spec2Model ----
(***************************************************************************)
(* Order issuance and verification protocol of server.js: POST             *)
(* /create-order mints a signed order identifier and stores the order in   *)
(* the in-memory map `orders`; POST /confirm checks a presented identifier *)
(* and amount against the stored order and relays the confirmation to the  *)
(* payment processor; the reply of the processor deletes the order (.then) *)
(* or leaves it (.catch).                                                  *)
(*                                                                         *)
(* Strings are sequences of one-character strings.  A JavaScript value of  *)
(* a request body is a record [kind, num, str]; a number is kept in tenths *)
(* (35 is 3.5) so that non-integral numbers exist.  Node runs a handler's  *)
(* synchronous part to completion, so each handler is one action; the      *)
(* outbound call of /confirm is in flight between the action that sends it *)
(* and the action that runs its .then or .catch callback.                  *)
(***************************************************************************)
EXTENDS Integers, Sequences, FiniteSets, Bags, TLC

\* ------------------------------------------------------------------ bounds

\* The clock readings Date.now() takes are 0..MaxTime.
MaxTime == 2
\* At most MaxOrders orders are ever issued (the nonces the generator has).
MaxOrders == 1
\* At most MaxInflight processor calls are in flight at once.
MaxInflight == 2

\* ---------------------------------------------------------- configuration

\* server.js:24, MAX_AMOUNT (read from the environment).
MAX_AMOUNT == 2
\* server.js:25, ORDER_TTL_MS (read from the environment).
ORDER_TTL_MS == 1
\* server.js:69, the maxLen create-order passes to safeText.
NAME_MAX_LEN == 40
\* server.js:84, crypto.randomBytes(8).
NONCE_BYTES == 8
\* server.js:57, .slice(0, 24) of the hex digest.
SIG_LEN == 24
\* server.js:57, the hex characters of a sha256 digest.
DIGEST_HEX_LEN == 64

\* -------------------------------------------------------------- characters

Digits == <<"0", "1", "2", "3", "4", "5", "6", "7", "8", "9">>

HexDigits ==
  <<"0", "1", "2", "3", "4", "5", "6", "7", "8", "9", "a", "b", "c", "d", "e", "f">>

IsDigit(c) == \E i \in 1..10 : Digits[i] = c

DigitVal(c) == (CHOOSE i \in 1..10 : Digits[i] = c) - 1

\* String.prototype.trim and parseInt skip white space; " " stands for it.
IsSpace(c) == c = " "

RECURSIVE NatToStr(_)
\* The decimal digits of a natural number.
NatToStr(n) ==
  IF n < 10 THEN <<Digits[n + 1]>>
  ELSE Append(NatToStr(n \div 10), Digits[(n % 10) + 1])

\* String(n) of an integer n, as Array.prototype.join renders a number.
NumToStr(n) == IF n < 0 THEN <<"-">> \o NatToStr(-n) ELSE NatToStr(n)

\* The hexadecimal digit of weight 16^i of the natural number k (k < 16^7).
HexDigitOf(k, i) == IF i > 6 THEN "0" ELSE HexDigits[((k \div (16 ^ i)) % 16) + 1]

\* k in hexadecimal, `width` characters wide: Buffer.toString("hex"), digest("hex").
ToHex(k, width) == [i \in 1..width |-> HexDigitOf(k, width - i)]

\* k in hexadecimal, `width` characters wide, least significant digit first.
ToHexLE(k, width) == [i \in 1..width |-> HexDigitOf(k, i - 1)]

RECURSIVE Join(_, _)
\* Array.prototype.join: the strings of `parts` with `sep` between them.
Join(parts, sep) ==
  IF Len(parts) = 0 THEN <<>>
  ELSE IF Len(parts) = 1 THEN parts[1]
  ELSE parts[1] \o <<sep>> \o Join(Tail(parts), sep)

\* String.prototype.split: the pieces of s between the occurrences of sep.
Split(s, sep) ==
  LET at == {i \in 1..Len(s) : s[i] = sep}
      n == Cardinality(at)
      \* the place of the k-th separator; 0 and Len(s) + 1 bound the string
      place(k) == IF k = 0 THEN 0
                  ELSE IF k = n + 1 THEN Len(s) + 1
                  ELSE CHOOSE i \in at : Cardinality({j \in at : j < i}) = k - 1
  IN  [k \in 1..(n + 1) |-> SubSeq(s, place(k - 1) + 1, place(k) - 1)]

RECURSIVE TrimLeft(_)
TrimLeft(s) == IF s # <<>> /\ IsSpace(Head(s)) THEN TrimLeft(Tail(s)) ELSE s

RECURSIVE TrimRight(_)
TrimRight(s) ==
  IF s # <<>> /\ IsSpace(s[Len(s)]) THEN TrimRight(SubSeq(s, 1, Len(s) - 1)) ELSE s

\* String.prototype.trim.
Trim(s) == TrimRight(TrimLeft(s))

\* String.prototype.slice(0, n).
Slice0(s, n) == IF Len(s) > n THEN SubSeq(s, 1, n) ELSE s

\* ------------------------------------------------------- JavaScript values

Undefined == [kind |-> "undefined", num |-> 0, str |-> <<>>]

Null == [kind |-> "null", num |-> 0, str |-> <<>>]

NaN == [kind |-> "NaN", num |-> 0, str |-> <<>>]

Infinity == [kind |-> "Infinity", num |-> 0, str |-> <<>>]

\* The number tenths/10.
Num(tenths) == [kind |-> "number", num |-> tenths, str |-> <<>>]

\* The integer number n.
IntNum(n) == Num(10 * n)

Str(s) == [kind |-> "string", num |-> 0, str |-> s]

\* The one-element array [s], as a JSON body can carry.
Arr(s) == [kind |-> "array", num |-> 0, str |-> s]

\* The integer an integral number value stands for.
IntOf(v) == v.num \div 10

\* ToBoolean, as `!x` and `x || y` apply it.
Truthy(v) ==
  CASE v.kind = "number" -> v.num # 0
    [] v.kind = "string" -> v.str # <<>>
    [] v.kind \in {"Infinity", "array"} -> TRUE
    [] OTHER -> FALSE

\* String(v), for the values an orderId can be.
ToStr(v) ==
  CASE v.kind = "string" -> v.str
    [] v.kind = "array" -> v.str
    [] v.kind = "number" -> NumToStr(IntOf(v))
    [] OTHER -> <<>>

RECURSIVE LeadingDigits(_)
\* The number of decimal digits s starts with.
LeadingDigits(s) ==
  IF s # <<>> /\ IsDigit(Head(s)) THEN 1 + LeadingDigits(Tail(s)) ELSE 0

RECURSIVE DigitsVal(_)
\* The value of a string of decimal digits.
DigitsVal(s) ==
  IF s = <<>> THEN 0 ELSE 10 * DigitsVal(SubSeq(s, 1, Len(s) - 1)) + DigitVal(s[Len(s)])

\* parseInt(s, 10): skips white space, takes a sign and the longest run of
\* digits, ignores what follows; NaN when there is no digit.
parseInt(s) ==
  LET t == TrimLeft(s)
      signed == t # <<>> /\ Head(t) \in {"-", "+"}
      u == IF signed THEN Tail(t) ELSE t
      n == LeadingDigits(u)
      v == DigitsVal(SubSeq(u, 1, n))
  IN  IF n = 0 THEN NaN
      ELSE IF signed /\ Head(t) = "-" THEN IntNum(-v) ELSE IntNum(v)

\* Number.isFinite.
NumberIsFinite(v) == v.kind = "number"

\* Math.floor of a finite number.
MathFloor(v) == Num((v.num \div 10) * 10)

\* server.js:42-47.
toIntAmount(x) ==
  LET n == IF x.kind = "string" THEN parseInt(x.str) ELSE x
  IN  IF ~NumberIsFinite(n) THEN Null
      ELSE IF MathFloor(n) # n THEN Null
      ELSE n

\* safeText without the cut to maxLen.
safeTextNoCut(s, maxLen) ==
  IF s.kind # "string" THEN <<>>
  ELSE Trim(s.str)

\* server.js:49-54.
safeText(s, maxLen) ==
  IF s.kind # "string" THEN <<>>
  ELSE Slice0(Trim(s.str), maxLen)

\* The placeholder order name of server.js:69 (four Hangul syllables, each
\* written here by its romanisation).
DEFAULT_ORDER_NAME == <<"ba", "ro", "jeong", "san">>

\* req.body.orderName || DEFAULT_ORDER_NAME
OrDefaultName(v) == IF Truthy(v) THEN v ELSE Str(DEFAULT_ORDER_NAME)

\* ------------------------------------------------------------------- state

VARIABLES
  orders,     \* server.js:29, the Map orderId -> {amount, orderName, createdAt, ip, ua}
  clock,      \* the value Date.now() returns
  nonces,     \* the nonces crypto.randomBytes has returned so far
  hmacTable,  \* the payloads signed so far; a payload's place decides its digest
  inflight,   \* the outbound calls of /confirm that have not settled (a bag)
  last,       \* the handler or callback of this turn: its request and its answer
  issued      \* history: every identifier create-order returned, with its record

vars == <<orders, clock, nonces, hmacTable, inflight, last, issued>>

\* server.js:89, the fixed first segment of an identifier.
PREFIX == <<"B", "A", "R", "O">>

\* req.headers["x-forwarded-for"] || req.socket.remoteAddress || "" (server.js:95).
CLIENT_IP == <<"1", ".", "1">>

\* req.headers["user-agent"] || "" (server.js:96).
CLIENT_UA == <<>>

\* server.js:31-33: now() is Date.now().
now == clock

\* A sweep that removes nothing.
cleanupOrdersNever(o, t) == o

\* A sweep that empties the store.
cleanupOrdersAll(o, t) == [k \in {} |-> o[k]]

\* The sweep with the age test off by one (>= for >).
cleanupOrdersEarly(o, t) ==
  [k \in {x \in DOMAIN o : ~(t - o[x].createdAt >= ORDER_TTL_MS)} |-> o[k]]

\* server.js:35-40: the orders that the sweep at clock reading t leaves.
cleanupOrders(o, t) ==
  [k \in {x \in DOMAIN o : ~(t - o[x].createdAt > ORDER_TTL_MS)} |-> o[k]]

\* Map.prototype.set.
ordersSet(o, k, v) == [x \in DOMAIN o \cup {k} |-> IF x = k THEN v ELSE o[x]]

\* A delete that removes nothing.
ordersDeleteNothing(o, k) == o

\* Map.prototype.delete.
ordersDelete(o, k) == [x \in DOMAIN o \ {k} |-> o[x]]

\* A lookup that turns the key into a string first, as a plain object's
\* property access does.
ordersHasCoerced(o, id) == id.str \in DOMAIN o

\* Map.prototype.get finds a value: keys are strings, and a key that is not a
\* string (an array, a number) equals none of them.
ordersHas(o, id) == id.kind = "string" /\ id.str \in DOMAIN o

\* The HMAC-SHA256 hex digest of a payload under signingSecret: a keyed
\* function taken as collision-free, the n-th distinct payload getting the
\* digest that renders n.
hmacDigest(payload) ==
  LET known == {i \in 1..Len(hmacTable) : hmacTable[i] = payload}
      n == IF known # {} THEN CHOOSE i \in known : TRUE ELSE Len(hmacTable) + 1
  IN  ToHexLE(n, DIGEST_HEX_LEN)

\* server.js:56-58.
hmacSign(payload) == Slice0(hmacDigest(payload), SIG_LEN)

\* hmacTable once `payload` has been signed.
hmacNoted(payload) ==
  IF \E i \in 1..Len(hmacTable) : hmacTable[i] = payload THEN hmacTable
  ELSE Append(hmacTable, payload)

\* server.js:84: the value crypto.randomBytes(8).toString("hex") returns,
\* taken as never repeating: the k-th call returns the k-th value.  The set
\* is empty once `pool` values have been returned.
NextNonces(pool) ==
  {ToHex(k, 2 * NONCE_BYTES) : k \in {Cardinality(nonces) + 1} \cap 1..pool}

\* server.js:85 and 146: [amount, orderName, ts, nonce].join("|").
signPayload(amount, orderName, ts, nonce) ==
  Join(<<NumToStr(amount), orderName, ts, nonce>>, "|")

\* An identifier with the nonce in the place of the timestamp and the
\* timestamp in the place of the nonce.
makeOrderIdSwapped(ts, nonce, sig) == Join(<<PREFIX, nonce, ts, sig>>, "_")

\* An identifier that carries neither the nonce nor the signature.
makeOrderIdBare(ts, nonce, sig) == Join(<<PREFIX, ts, <<"0">>, <<"0">>>>, "_")

\* server.js:89: ["BARO", ts, nonce, sig].join("_").
makeOrderId(ts, nonce, sig) == Join(<<PREFIX, ts, nonce, sig>>, "_")

\* ---------------------------------------------------------------- requests

NoReq == [paymentKey |-> Undefined, orderId |-> Undefined, amount |-> Undefined,
          orderName |-> Undefined]

NoResp == [status |-> 0, ok |-> FALSE, code |-> "", orderId |-> <<>>, amount |-> 0,
           orderName |-> <<>>, maxAmount |-> 0, ttlMs |-> 0,
           expectedAmount |-> 0, receivedAmount |-> 0]

\* A res.status(400).json({ok: false, code: ...}).
Error400(code) == [NoResp EXCEPT !.status = 400, !.code = code]

\* The amounts a request body carries.
AmountInputs ==
  { Undefined, IntNum(0), IntNum(-5), Num(35), Num(15), IntNum(1), IntNum(2),
    IntNum(MAX_AMOUNT + 1), Infinity,
    Str(<<"a", "b", "c">>), Str(<<"3", ".", "5">>), Str(<<"1", ".", "5">>),
    Str(<<"2">>) }

\* An order name one character longer than create-order keeps.
LONG_NAME == [i \in 1..(NAME_MAX_LEN + 1) |-> Digits[(i % 10) + 1]]

\* The order names a request body carries: none, an empty one, a plain one,
\* one of white space only, one with white space around it, one too long.
NameInputs ==
  { Undefined, Str(<<>>), Str(<<"W">>), Str(<<" ", " ">>), Str(<<" ", "W", " ">>),
    Str(LONG_NAME) }

\* The bodies of the create-order requests: every amount with one order
\* name, and every order name with one amount.
CreateInputs ==
  {[NoReq EXCEPT !.amount = a, !.orderName = Str(<<"W">>)] : a \in AmountInputs}
    \cup {[NoReq EXCEPT !.amount = IntNum(1), !.orderName = n] : n \in NameInputs}

\* The amounts the body of a confirm request carries.
ConfirmAmountInputs == {Undefined, IntNum(1), Str(<<"2">>), Num(15)}

\* The payment keys a request body carries.
KeyInputs == {Undefined, Str(<<"p", "k">>)}

\* One value a client puts in the place of segment k of an identifier.
OtherSegment(k, seg) ==
  CASE k = 1 -> <<"B", "A", "R", "X">>
    [] k = 2 -> IF seg = NumToStr(0) THEN NumToStr(1) ELSE NumToStr(0)
    [] k = 3 -> IF seg = ToHex(1, 2 * NONCE_BYTES) THEN ToHex(2, 2 * NONCE_BYTES)
                ELSE ToHex(1, 2 * NONCE_BYTES)
    [] OTHER -> IF seg = Slice0(ToHexLE(1, DIGEST_HEX_LEN), SIG_LEN)
                THEN Slice0(ToHexLE(2, DIGEST_HEX_LEN), SIG_LEN)
                ELSE Slice0(ToHexLE(1, DIGEST_HEX_LEN), SIG_LEN)

\* The identifier id with its segment k changed.
Mutated(id, k) ==
  LET parts == Split(id, "_")
  IN  Join([parts EXCEPT ![k] = OtherSegment(k, parts[k])], "_")

\* The identifiers a client can present: each identifier issued so far, as
\* a string and inside an array, with one segment changed, with a segment
\* dropped or added; and an absent or empty one.
IdInputs ==
  {Undefined, Str(<<>>)}
    \cup {Str(id) : id \in DOMAIN issued}
    \cup {Arr(id) : id \in DOMAIN issued}
    \cup {Str(Mutated(id, k)) : id \in DOMAIN issued, k \in 1..4}
    \cup {Str(Join(Append(Split(id, "_"), <<"0">>), "_")) : id \in DOMAIN issued}
    \cup {Str(Join(SubSeq(Split(id, "_"), 1, 3), "_")) : id \in DOMAIN issued}

\* server.js:71, the first check of create-order.
invalidAmount(amount) == amount = Null \/ amount.num <= 0

\* The second check of create-order with >= for >.
exceedsMaxInclusive(amount) == amount.num >= 10 * MAX_AMOUNT

\* server.js:74, the second check of create-order.
exceedsMax(amount) == amount.num > 10 * MAX_AMOUNT

\* The first check of confirm without its test of the payment key.
missingFieldsButKey(paymentKey, orderId, amount) == ~Truthy(orderId) \/ amount = Null

\* server.js:121, the first check of confirm.
missingFields(paymentKey, orderId, amount) ==
  ~Truthy(paymentKey) \/ ~Truthy(orderId) \/ amount = Null

\* The second check of confirm without its test of the prefix.
invalidOrderIdAnyPrefix(parts) == Len(parts) # 4

\* server.js:127, the second check of confirm.
invalidOrderId(parts) == Len(parts) # 4 \/ parts[1] # PREFIX

\* server.js:148, the fourth check of confirm.
sigMismatch(sig, expectedSig) == sig # expectedSig

\* The fifth check of confirm left out.
amountMismatchNever(amount, saved) == FALSE

\* The fifth check of confirm rejecting only a claimed amount below the stored one.
amountMismatchBelow(amount, saved) == IntOf(amount) < saved.amount

\* server.js:153, the fifth check of confirm.
amountMismatch(amount, saved) == IntOf(amount) # saved.amount

\* The state of a turn of the event loop in which no handler has run yet.
NoTurn == [op |-> "none", req |-> NoReq, resp |-> NoResp, at |-> 0, sent |-> FALSE]

Init ==
  /\ orders = <<>>
  /\ clock = 0
  /\ nonces = {}
  /\ hmacTable = <<>>
  /\ inflight = EmptyBag
  /\ last = NoTurn
  /\ issued = <<>>

\* Time passes between two turns of the event loop.
Tick ==
  /\ last.op = "none"
  /\ clock < MaxTime
  /\ clock' = clock + 1
  /\ UNCHANGED <<orders, nonces, hmacTable, inflight, last, issued>>

\* The turn of the event loop ends: the handler or callback has returned.
EndTurn ==
  /\ last.op # "none"
  /\ last' = NoTurn
  /\ UNCHANGED <<orders, clock, nonces, hmacTable, inflight, issued>>

\* server.js:65-107, POST /create-order, with a generator of `pool` nonces.
CreateOrderWith(pool) ==
  /\ last.op = "none"
  /\ \E req \in CreateInputs :
    LET amountIn == req.amount
        nameIn == req.orderName
        t == now
        swept == cleanupOrders(orders, t)
        amount == toIntAmount(amountIn)
        orderName == safeText(OrDefaultName(nameIn), NAME_MAX_LEN)
        answer(resp) == last' = [op |-> "create-order", req |-> req, resp |-> resp,
                                 at |-> t, sent |-> FALSE]
    IN  IF invalidAmount(amount)
        THEN /\ orders' = swept
             /\ answer(Error400("INVALID_AMOUNT"))
             /\ UNCHANGED <<clock, nonces, hmacTable, inflight, issued>>
        ELSE IF exceedsMax(amount)
        THEN /\ orders' = swept
             /\ answer([Error400("AMOUNT_EXCEEDS_MAX") EXCEPT !.maxAmount = MAX_AMOUNT])
             /\ UNCHANGED <<clock, nonces, hmacTable, inflight, issued>>
        ELSE \E ts \in {x \in {t, t + 1} : x <= MaxTime}, nonce \in NextNonces(pool) :
               LET payload == signPayload(IntOf(amount), orderName, NumToStr(ts), nonce)
                   sig == hmacSign(payload)
                   orderId == makeOrderId(NumToStr(ts), nonce, sig)
                   record == [amount |-> IntOf(amount), orderName |-> orderName,
                              createdAt |-> ts, ip |-> CLIENT_IP, ua |-> CLIENT_UA]
               IN  /\ clock' = ts
                   /\ nonces' = nonces \cup {nonce}
                   /\ hmacTable' = hmacNoted(payload)
                   /\ orders' = ordersSet(swept, orderId, record)
                   /\ issued' = ordersSet(issued, orderId, record)
                   /\ answer([NoResp EXCEPT !.status = 200, !.ok = TRUE,
                                !.orderId = orderId, !.amount = IntOf(amount),
                                !.orderName = orderName, !.maxAmount = MAX_AMOUNT,
                                !.ttlMs = ORDER_TTL_MS])
                   /\ UNCHANGED inflight

\* POST /create-order while fewer than MaxOrders orders have been issued.
CreateOrder == CreateOrderWith(MaxOrders)

\* A create-order that waits while an outbound call of /confirm is in flight,
\* as it would if /confirm held the store across the call.
CreateOrderMoreWhenIdle == inflight = EmptyBag /\ CreateOrderWith(MaxOrders + 1)

\* POST /create-order while at most MaxOrders orders have been issued.
CreateOrderMore == CreateOrderWith(MaxOrders + 1)

\* server.js:114-178, POST /confirm up to the outbound call it sends.
Confirm ==
  /\ last.op = "none"
  /\ \E keyIn \in KeyInputs, idIn \in IdInputs, amountIn \in ConfirmAmountInputs :
    LET req == [NoReq EXCEPT !.paymentKey = keyIn, !.orderId = idIn, !.amount = amountIn]
        t == now
        swept == cleanupOrders(orders, t)
        paymentKey == keyIn
        orderId == idIn
        amount == toIntAmount(amountIn)
        reject(resp) ==
          /\ last' = [op |-> "confirm", req |-> req, resp |-> resp, at |-> t,
                      sent |-> FALSE]
          /\ orders' = swept
          /\ UNCHANGED <<clock, nonces, inflight, issued>>
    IN  IF missingFields(paymentKey, orderId, amount)
        THEN reject(Error400("MISSING_FIELDS")) /\ UNCHANGED hmacTable
        ELSE
        LET parts == Split(ToStr(orderId), "_")
        IN  IF invalidOrderId(parts)
            THEN reject(Error400("INVALID_ORDER_ID")) /\ UNCHANGED hmacTable
            ELSE
            LET ts == parts[2]
                nonce == parts[3]
                sig == parts[4]
            IN  IF ~ordersHas(swept, orderId)
                THEN reject(Error400("ORDER_NOT_FOUND")) /\ UNCHANGED hmacTable
                ELSE
                LET saved == swept[orderId.str]
                    payload == signPayload(saved.amount, saved.orderName, ts, nonce)
                    expectedSig == hmacSign(payload)
                IN  /\ hmacTable' = hmacNoted(payload)
                    /\ IF sigMismatch(sig, expectedSig)
                       THEN reject(Error400("ORDER_TAMPERED"))
                       ELSE IF amountMismatch(amount, saved)
                       THEN reject([Error400("AMOUNT_MISMATCH") EXCEPT
                                      !.expectedAmount = saved.amount,
                                      !.receivedAmount = IntOf(amount)])
                       ELSE /\ BagCardinality(inflight) < MaxInflight
                            /\ inflight' = inflight (+) SetToBag(
                                 {[orderId |-> orderId.str, amount |-> IntOf(amount),
                                   paymentKey |-> paymentKey]})
                            /\ last' = [op |-> "confirm", req |-> req, resp |-> NoResp,
                                        at |-> t, sent |-> TRUE]
                            /\ orders' = swept
                            /\ UNCHANGED <<clock, nonces, issued>>

\* The request an outbound call was sent for.
ReqOf(call) ==
  [NoReq EXCEPT !.paymentKey = call.paymentKey, !.orderId = Str(call.orderId),
                !.amount = IntNum(call.amount)]

\* server.js:179-188: the processor accepted an outbound call.
ProcessorAccepts ==
  /\ last.op = "none"
  /\ \E call \in BagToSet(inflight) :
           /\ orders' = ordersDelete(orders, call.orderId)
           /\ inflight' = inflight (-) SetToBag({call})
           /\ last' = [op |-> "then", req |-> ReqOf(call),
                       resp |-> [NoResp EXCEPT !.status = 200, !.ok = TRUE,
                                   !.orderId = call.orderId, !.amount = call.amount],
                       at |-> now, sent |-> FALSE]
           /\ UNCHANGED <<clock, nonces, hmacTable, issued>>

\* The status codes a failed call carries: that of the processor's error
\* response, or none (0) when the call got no response.
ErrorStatuses == {0, 400}

\* The .catch callback deleting the order, as the .then callback does.
ProcessorRejectsAndDeletes ==
  /\ last.op = "none"
  /\ \E call \in BagToSet(inflight), statusCode \in ErrorStatuses :
       LET status == IF statusCode # 0 THEN statusCode ELSE 500
       IN  /\ inflight' = inflight (-) SetToBag({call})
           /\ orders' = ordersDelete(orders, call.orderId)
           /\ last' = [op |-> "catch", req |-> ReqOf(call),
                       resp |-> [NoResp EXCEPT !.status = status,
                                   !.code = "TOSS_CONFIRM_FAILED"],
                       at |-> now, sent |-> FALSE]
           /\ UNCHANGED <<clock, nonces, hmacTable, issued>>

\* server.js:189-200: an outbound call failed.
ProcessorRejects ==
  /\ last.op = "none"
  /\ \E call \in BagToSet(inflight), statusCode \in ErrorStatuses :
       LET status == IF statusCode # 0 THEN statusCode ELSE 500
       IN  /\ inflight' = inflight (-) SetToBag({call})
           /\ last' = [op |-> "catch", req |-> ReqOf(call),
                       resp |-> [NoResp EXCEPT !.status = status,
                                   !.code = "TOSS_CONFIRM_FAILED"],
                       at |-> now, sent |-> FALSE]
           /\ UNCHANGED <<orders, clock, nonces, hmacTable, issued>>

Next ==
  \/ Tick
  \/ EndTurn
  \/ CreateOrder
  \/ Confirm
  \/ ProcessorAccepts
  \/ ProcessorRejects

Spec == Init /\ [][Next]_vars

\* The same program with one more order issued.
NextMore ==
  \/ Tick
  \/ EndTurn
  \/ CreateOrderMore
  \/ Confirm
  \/ ProcessorAccepts
  \/ ProcessorRejects

SpecMore == Init /\ [][NextMore]_vars

\* The program with the scheduling Node guarantees: a handler or callback
\* that has started runs to its end.  server.js:166-178 passes got.post no
\* timeout, so nothing in the program makes a call in flight settle: the
\* .then and .catch callbacks run only when the processor replies or the
\* connection fails, and no fairness is stated for them.
SpecLive == Spec /\ WF_vars(EndTurn)

\* ------------------------------------------------------------------ claims

\* The identifier, the parsed amount and the payment key of this turn's request.
ReqId == last.req.orderId

ReqAmount == toIntAmount(last.req.amount)

\* This turn ran /confirm on a request with a payment key, an identifier and
\* a parseable amount.
CompleteConfirm ==
  /\ last.op = "confirm"
  /\ Truthy(last.req.paymentKey)
  /\ Truthy(ReqId)
  /\ ReqAmount # Null

\* This turn's request presents, as a string, the identifier of a stored order.
PresentsStored == ReqId.kind = "string" /\ ReqId.str \in DOMAIN orders

\* This turn's request presents, as a string, an identifier create-order returned.
PresentsIssued == ReqId.kind = "string" /\ ReqId.str \in DOMAIN issued

\* The segments in which the four-segment string x differs from identifier id.
ChangedSegments(id, x) ==
  LET p == Split(id, "_")
      q == Split(x, "_")
  IN  IF Len(q) # 4 THEN {0} ELSE {k \in 1..4 : p[k] # q[k]}

\* C1: every confirmation request in flight to the payment processor carries
\* an identifier that create-order returned and the amount that create-order
\* call bound to it.
C1_ForwardedAmountIsIssuedAmount ==
  \A call \in BagToSet(inflight) :
    /\ call.orderId \in DOMAIN issued
    /\ call.amount = issued[call.orderId].amount

\* A confirm has just been forwarded for an issued identifier.
C1_Witness ==
  /\ last.op = "confirm"
  /\ last.sent
  /\ \E call \in BagToSet(inflight) :
       call.orderId = ReqId.str /\ call.amount = issued[ReqId.str].amount

\* A complete confirm that presents a stored identifier with the amount bound
\* at issuance is forwarded to the processor.
AuthorizedIsSent ==
  (CompleteConfirm /\ PresentsStored /\ IntOf(ReqAmount) = issued[ReqId.str].amount)
    => last.sent

\* C2: a confirm with the returned identifier and the same amount is
\* forwarded; when the processor accepts it the caller gets ok:true and the
\* record is deleted; a record that has left the store never comes back; and
\* every later complete confirm with that identifier fails with
\* ORDER_NOT_FOUND and is not forwarded.
C2_SingleUse ==
  /\ [] AuthorizedIsSent
  /\ [] (last.op = "then" =>
           /\ last.resp.ok
           /\ last.resp.orderId = ReqId.str
           /\ ReqId.str \notin DOMAIN orders)
  /\ [][\A id \in DOMAIN issued : id \notin DOMAIN orders => id \notin DOMAIN orders']_vars
  /\ [] ((CompleteConfirm /\ PresentsIssued /\ ~PresentsStored) =>
           (last.resp.code = "ORDER_NOT_FOUND" /\ ~last.sent))

\* A complete confirm is answered ORDER_NOT_FOUND for an identifier that was
\* issued and has not expired: its record was consumed by a success.
C2_Witness ==
  /\ CompleteConfirm
  /\ PresentsIssued
  /\ last.at - issued[ReqId.str].createdAt <= ORDER_TTL_MS
  /\ IntOf(ReqAmount) = issued[ReqId.str].amount
  /\ last.resp.code = "ORDER_NOT_FOUND"

\* C3 as stated: a complete confirm presenting a stored identifier with one
\* segment changed fails with INVALID_ORDER_ID or ORDER_TAMPERED.
C3_Original ==
  \A id \in DOMAIN orders :
    (CompleteConfirm /\ ReqId.kind = "string"
       /\ Cardinality(ChangedSegments(id, ReqId.str)) = 1
       /\ ChangedSegments(id, ReqId.str) # {0})
      => (last.resp.code \in {"INVALID_ORDER_ID", "ORDER_TAMPERED"} /\ ~last.sent)

\* C3, amended: a complete confirm presenting a stored identifier with one
\* segment changed is never forwarded; it fails with INVALID_ORDER_ID when
\* the prefix is the changed segment and with ORDER_NOT_FOUND when the
\* timestamp, the nonce or the signature is.
C3_MutatedIdentifierRejected ==
  \A id \in DOMAIN orders, k \in 1..4 :
    (CompleteConfirm /\ ReqId.kind = "string" /\ ChangedSegments(id, ReqId.str) = {k})
      => /\ ~last.sent
         /\ last.resp.code = IF k = 1 THEN "INVALID_ORDER_ID" ELSE "ORDER_NOT_FOUND"

\* A complete confirm presented a stored identifier with its signature
\* segment changed, and the amount bound to it, and got ORDER_NOT_FOUND.
C3_Witness ==
  \E id \in DOMAIN orders :
    /\ CompleteConfirm
    /\ ReqId.kind = "string"
    /\ ChangedSegments(id, ReqId.str) = {4}
    /\ IntOf(ReqAmount) = orders[id].amount
    /\ last.resp.code = "ORDER_NOT_FOUND"

\* C4: a complete confirm that presents a stored (issued, unexpired)
\* identifier with a claimed amount other than the amount bound at issuance
\* fails with AMOUNT_MISMATCH, reports the bound amount as expectedAmount and
\* the claimed one as receivedAmount, and is not forwarded.
C4_AmountMismatchRejected ==
  (CompleteConfirm /\ PresentsStored /\ IntOf(ReqAmount) # issued[ReqId.str].amount)
    => /\ last.resp.code = "AMOUNT_MISMATCH"
       /\ last.resp.status = 400
       /\ last.resp.expectedAmount = issued[ReqId.str].amount
       /\ last.resp.receivedAmount = IntOf(ReqAmount)
       /\ ~last.sent

\* A confirm claiming more than the bound amount was answered AMOUNT_MISMATCH.
C4_Witness ==
  /\ CompleteConfirm
  /\ PresentsStored
  /\ IntOf(ReqAmount) > issued[ReqId.str].amount
  /\ last.resp.code = "AMOUNT_MISMATCH"
  /\ last.resp.expectedAmount # last.resp.receivedAmount

\* C5: a complete confirm for an issued identifier that starts more than
\* ORDER_TTL_MS after createdAt fails with ORDER_NOT_FOUND and is not
\* forwarded; the sweep of a request removes no record of age at most
\* ORDER_TTL_MS; and a stored record is never answered ORDER_NOT_FOUND.
C5_ExpiredIsAbsent ==
  /\ [] ((CompleteConfirm /\ PresentsIssued
            /\ last.at - issued[ReqId.str].createdAt > ORDER_TTL_MS)
           => (last.resp.code = "ORDER_NOT_FOUND" /\ ~last.sent))
  /\ [][last'.op \in {"create-order", "confirm"} =>
          \A id \in DOMAIN orders :
            last'.at - orders[id].createdAt <= ORDER_TTL_MS => id \in DOMAIN orders']_vars
  /\ [] ((CompleteConfirm /\ PresentsStored) => last.resp.code # "ORDER_NOT_FOUND")

\* A complete confirm with the bound amount, started after the identifier
\* expired, was answered ORDER_NOT_FOUND.
C5_Witness ==
  /\ CompleteConfirm
  /\ PresentsIssued
  /\ last.at - issued[ReqId.str].createdAt > ORDER_TTL_MS
  /\ IntOf(ReqAmount) = issued[ReqId.str].amount
  /\ last.resp.code = "ORDER_NOT_FOUND"

\* The amount a request body carries is written as an integer: an integral
\* finite number, or a string of decimal digits with an optional sign.
WrittenAsInteger(v) ==
  \/ v.kind = "number" /\ v.num % 10 = 0
  \/ /\ v.kind = "string"
     /\ LET u == IF v.str # <<>> /\ Head(v.str) \in {"-", "+"} THEN Tail(v.str) ELSE v.str
        IN  u # <<>> /\ \A i \in 1..Len(u) : IsDigit(u[i])

\* The integer an amount written as an integer denotes.
WrittenValue(v) ==
  IF v.kind = "number" THEN v.num \div 10
  ELSE IF Head(v.str) = "-" THEN -DigitsVal(Tail(v.str))
  ELSE IF Head(v.str) = "+" THEN DigitsVal(Tail(v.str))
  ELSE DigitsVal(v.str)

\* C6 as stated: create-order answers INVALID_AMOUNT, and stores no record,
\* for every amount, number or string, that is not written as an integer
\* (absent, non-finite, non-integral, not a number) or is <= 0.
C6_Original ==
  (last.op = "create-order"
     /\ (~WrittenAsInteger(last.req.amount) \/ WrittenValue(last.req.amount) <= 0))
    => /\ last.resp.code = "INVALID_AMOUNT"
       /\ ~last.resp.ok
       /\ last.resp.orderId \notin DOMAIN orders

\* C7: create-order with an integer amount above MAX_AMOUNT answers
\* AMOUNT_EXCEEDS_MAX with MAX_AMOUNT in the error; a number that is not a
\* finite integer gets INVALID_AMOUNT even when it is above MAX_AMOUNT; a
\* create-order that fails stores no record; and create-order with an integer
\* amount in 1..MAX_AMOUNT succeeds, adds exactly one record, under the
\* identifier it returns, and echoes the amount and orderName of that record.
C7_CeilingAndSuccess ==
  /\ [] ((last.op = "create-order" /\ WrittenAsInteger(last.req.amount)
            /\ WrittenValue(last.req.amount) > MAX_AMOUNT)
           => /\ last.resp.code = "AMOUNT_EXCEEDS_MAX"
              /\ last.resp.status = 400
              /\ last.resp.maxAmount = MAX_AMOUNT
              /\ ~last.resp.ok)
  /\ [] ((last.op = "create-order"
            /\ \/ last.req.amount.kind = "Infinity"
               \/ last.req.amount.kind = "number" /\ last.req.amount.num % 10 # 0)
           => last.resp.code = "INVALID_AMOUNT")
  /\ [][(last'.op = "create-order" /\ ~last'.resp.ok)
          => (DOMAIN orders' \subseteq DOMAIN orders /\ issued' = issued)]_vars
  /\ [][(last'.op = "create-order" /\ WrittenAsInteger(last'.req.amount)
           /\ WrittenValue(last'.req.amount) \in 1..MAX_AMOUNT)
          => /\ last'.resp.ok
             /\ last'.resp.status = 200
             /\ DOMAIN orders' \ DOMAIN orders = {last'.resp.orderId}
             /\ orders'[last'.resp.orderId].amount = WrittenValue(last'.req.amount)
             /\ last'.resp.amount = orders'[last'.resp.orderId].amount
             /\ last'.resp.orderName = orders'[last'.resp.orderId].orderName]_vars

\* create-order was asked for MAX_AMOUNT + 1 and answered AMOUNT_EXCEEDS_MAX
\* with the ceiling.
C7_Witness ==
  /\ last.op = "create-order"
  /\ last.req.amount = IntNum(MAX_AMOUNT + 1)
  /\ last.resp.code = "AMOUNT_EXCEEDS_MAX"
  /\ last.resp.maxAmount = MAX_AMOUNT

\* C8: when an outbound call fails, the store is left as it is and the
\* caller gets TOSS_CONFIRM_FAILED; the record, while stored, still carries
\* the amount that was authorized, and a complete confirm that presents a
\* stored identifier with its amount is forwarded.
C8_FailureLeavesRecord ==
  /\ [][last'.op = "catch" =>
          /\ orders' = orders
          /\ last'.resp.code = "TOSS_CONFIRM_FAILED"
          /\ ~last'.resp.ok]_vars
  /\ [] ((last.op = "catch" /\ PresentsStored)
           => orders[ReqId.str].amount = IntOf(ReqAmount))
  /\ [] AuthorizedIsSent

\* An outbound call failed and its record is still stored and unexpired.
C8_Witness ==
  /\ last.op = "catch"
  /\ last.resp.code = "TOSS_CONFIRM_FAILED"
  /\ PresentsStored
  /\ clock - orders[ReqId.str].createdAt <= ORDER_TTL_MS

\* The code of the first check of /confirm that this turn's request fails,
\* the checks taken in the order MISSING_FIELDS, INVALID_ORDER_ID,
\* ORDER_NOT_FOUND, ORDER_TAMPERED, AMOUNT_MISMATCH; "" when it passes all.
FirstFailure ==
  LET parts == Split(ToStr(ReqId), "_")
      saved == orders[ReqId.str]
  IN  IF ~Truthy(last.req.paymentKey) \/ ~Truthy(ReqId) \/ ReqAmount = Null
        THEN "MISSING_FIELDS"
      ELSE IF Len(parts) # 4 \/ parts[1] # PREFIX
        THEN "INVALID_ORDER_ID"
      ELSE IF ~PresentsStored
        THEN "ORDER_NOT_FOUND"
      ELSE IF parts[4] # hmacSign(signPayload(saved.amount, saved.orderName,
                                              parts[2], parts[3]))
        THEN "ORDER_TAMPERED"
      ELSE IF IntOf(ReqAmount) # saved.amount
        THEN "AMOUNT_MISMATCH"
      ELSE ""

\* C9: confirm answers with the code of the first check the request fails,
\* with status 400, and forwards the request exactly when it fails none.
C9_ChecksInOrder ==
  last.op = "confirm" =>
    /\ last.resp.code = FirstFailure
    /\ last.sent <=> FirstFailure = ""
    /\ FirstFailure # "" => last.resp.status = 400

\* A confirm without a payment key, with a malformed identifier of a stored
\* order and a wrong amount, was answered MISSING_FIELDS.
C9_Witness ==
  /\ last.op = "confirm"
  /\ ~Truthy(last.req.paymentKey)
  /\ ReqId.kind = "string"
  /\ Len(Split(ReqId.str, "_")) = 3
  /\ ReqAmount # Null
  /\ \E id \in DOMAIN orders : orders[id].amount # IntOf(ReqAmount)
  /\ last.resp.code = "MISSING_FIELDS"

\* C10: a step changes neither the amount nor the orderName of a record
\* whose identifier stays in the store.
C10_RecordImmutable ==
  [][\A id \in DOMAIN orders \cap DOMAIN orders' :
       /\ orders'[id].amount = orders[id].amount
       /\ orders'[id].orderName = orders[id].orderName]_vars

\* create-order has just added a second order, created at the same clock
\* reading as a stored one and for another amount.
C10_Witness ==
  /\ last.op = "create-order"
  /\ last.resp.ok
  /\ \E id \in DOMAIN orders :
       /\ id # last.resp.orderId
       /\ orders[id].createdAt = orders[last.resp.orderId].createdAt
       /\ orders[id].amount # orders[last.resp.orderId].amount

\* C11 as stated: every confirm that is forwarded to the processor is
\* eventually answered, by its .then or its .catch callback, whatever the
\* processor does.
C11_Original ==
  (last.op = "confirm" /\ last.sent) ~> (last.op \in {"then", "catch"})

\* This turn's request presents a well-formed identifier: as a string it has
\* four segments, the first of them the prefix.
WellFormedId ==
  LET parts == Split(ToStr(ReqId), "_")
  IN  Len(parts) = 4 /\ parts[1] = PREFIX

\* This turn's request presents an identifier with no live record: one that
\* is no key of the store, or one issued more than ORDER_TTL_MS before the
\* request's clock reading.
NoLiveRecord ==
  \/ ~PresentsStored
  \/ PresentsIssued /\ last.at - issued[ReqId.str].createdAt > ORDER_TTL_MS

\* C12: a complete confirm with a well-formed identifier that has no live
\* record is answered by one fixed response, status 400 and code
\* ORDER_NOT_FOUND with no other field set, and is not forwarded: the answer
\* depends neither on the state nor on whether the identifier was never
\* issued, was consumed by a success, or expired.
C12_NotFoundIsUniform ==
  (CompleteConfirm /\ WellFormedId /\ NoLiveRecord)
    => (last.resp = Error400("ORDER_NOT_FOUND") /\ ~last.sent)

\* A complete confirm presented a well-formed identifier that was never
\* issued, while an issued identifier is stored, and got ORDER_NOT_FOUND.
C12_Witness ==
  /\ CompleteConfirm
  /\ WellFormedId
  /\ ReqId.kind = "string"
  /\ ReqId.str \notin DOMAIN issued
  /\ orders # <<>>
  /\ last.resp = Error400("ORDER_NOT_FOUND")

\* The order name of a request body is absent or blank: no string, or a
\* string of white space only.
BlankName(v) == v.kind # "string" \/ \A i \in 1..Len(v.str) : IsSpace(v.str[i])

\* The amount of this turn's create-order request passes the amount checks.
AmountAccepted ==
  toIntAmount(last.req.amount) # Null
    /\ IntOf(toIntAmount(last.req.amount)) \in 1..MAX_AMOUNT

\* C13 as stated: create-order succeeds whenever the amount is accepted,
\* whatever the orderName; the stored orderName is the placeholder when the
\* request's is absent or blank, and the request's trimmed and cut to
\* NAME_MAX_LEN characters otherwise; the response echoes the stored name,
\* and the signature in the identifier is the one of the stored amount and
\* orderName.
C13_Original ==
  last.op = "create-order" =>
    /\ AmountAccepted <=> last.resp.ok
    /\ last.resp.ok =>
         LET id == last.resp.orderId
             parts == Split(id, "_")
             name == last.req.orderName
         IN  /\ id \in DOMAIN orders
             /\ orders[id].orderName =
                  IF BlankName(name) THEN DEFAULT_ORDER_NAME
                  ELSE Slice0(Trim(name.str), NAME_MAX_LEN)
             /\ last.resp.orderName = orders[id].orderName
             /\ parts[4] = hmacSign(signPayload(orders[id].amount, orders[id].orderName,
                                                parts[2], parts[3]))

\* C14 as stated: of the confirms for one identifier at most one is
\* forwarded while a call for that identifier is in flight, so no two calls
\* in flight carry the same identifier.
C14_Original ==
  \A c \in BagToSet(inflight) :
    /\ CopiesIn(c, inflight) = 1
    /\ \A d \in BagToSet(inflight) : d.orderId = c.orderId => d = c

\* C15: right after the synchronous part of any create-order or confirm,
\* rejected or not, no stored record is older than ORDER_TTL_MS as of the
\* clock reading of that request's sweep; and the step of such a request
\* removes no record of age at most ORDER_TTL_MS at that reading.
C15_EveryRequestSweeps ==
  /\ [] (last.op \in {"create-order", "confirm"} =>
           \A id \in DOMAIN orders : last.at - orders[id].createdAt <= ORDER_TTL_MS)
  /\ [][last'.op \in {"create-order", "confirm"} =>
          \A id \in DOMAIN orders :
            last'.at - orders[id].createdAt <= ORDER_TTL_MS
              => (id \in DOMAIN orders' /\ orders'[id] = orders[id])]_vars

\* A request that was rejected ran at a clock reading at which an issued
\* order had expired, and the store no longer holds that order.
C15_Witness ==
  /\ last.op \in {"create-order", "confirm"}
  /\ last.resp.code \in {"INVALID_AMOUNT", "MISSING_FIELDS"}
  /\ \E id \in DOMAIN issued :
       /\ last.at - issued[id].createdAt > ORDER_TTL_MS
       /\ id \notin DOMAIN orders

\* The step ends in a turn that rejects: a create-order that failed
\* validation, a confirm that was not forwarded, or a .catch callback.
RejectingStep ==
  \/ last'.op = "create-order" /\ ~last'.resp.ok
  \/ last'.op = "confirm" /\ ~last'.sent
  \/ last'.op = "catch"

\* C16: a record leaves the store only in the .then callback of a call for
\* its own identifier, or in the sweep of a request whose clock reading is
\* more than ORDER_TTL_MS after the record's createdAt; and a rejecting step
\* (failed create-order, confirm answered MISSING_FIELDS, INVALID_ORDER_ID,
\* ORDER_NOT_FOUND, ORDER_TAMPERED or AMOUNT_MISMATCH, or a .catch answering
\* TOSS_CONFIRM_FAILED) adds no record and leaves every record that is
\* unexpired at its clock reading in the store with the same fields.
C16_RecordLeavesOnlyBySuccessOrExpiry ==
  /\ [][\A id \in DOMAIN orders :
          id \notin DOMAIN orders' =>
            \/ last'.op = "then" /\ last'.req.orderId = Str(id) /\ last'.resp.ok
            \/ /\ last'.op \in {"create-order", "confirm"}
               /\ last'.at - orders[id].createdAt > ORDER_TTL_MS]_vars
  /\ [][RejectingStep =>
          /\ DOMAIN orders' \subseteq DOMAIN orders
          /\ last'.resp.code \in {"INVALID_AMOUNT", "AMOUNT_EXCEEDS_MAX", "MISSING_FIELDS",
                                  "INVALID_ORDER_ID", "ORDER_NOT_FOUND", "ORDER_TAMPERED",
                                  "AMOUNT_MISMATCH", "TOSS_CONFIRM_FAILED"}
          /\ \A id \in DOMAIN orders :
               last'.at - orders[id].createdAt <= ORDER_TTL_MS
                 => (id \in DOMAIN orders' /\ orders'[id] = orders[id])]_vars

\* A create-order failed validation while the store holds a record that is
\* unexpired at the request's clock reading.
C16_Witness ==
  /\ last.op = "create-order"
  /\ ~last.resp.ok
  /\ \E id \in DOMAIN orders : last.at - orders[id].createdAt <= ORDER_TTL_MS

\* This turn's request does not present the identifier of every call in
\* flight: a call for another identifier is in flight.
OtherCallInFlight ==
  \E call \in BagToSet(inflight) : ReqId.kind # "string" \/ call.orderId # ReqId.str

\* C17: while a call is in flight and no handler is running, create-order
\* can run to a successful answer (as long as the nonce generator of the
\* model has a value left); a create-order that ran
\* while a call was in flight succeeded exactly if its amount was acceptable;
\* and a confirm that ran while a call for another identifier was in flight
\* was answered by the first check it fails, and forwarded if it fails none,
\* as the store alone decides it.
C17_StoreNotHeldAcrossCall ==
  /\ [] ((last.op = "none" /\ inflight # EmptyBag)
           => (Cardinality(nonces) < MaxOrders + 1
                 => ENABLED (CreateOrderMore /\ last'.resp.ok)))
  /\ [] ((last.op = "create-order" /\ inflight # EmptyBag)
           => (AmountAccepted <=> last.resp.ok))
  /\ [] ((last.op = "confirm" /\ OtherCallInFlight)
           => (last.resp.code = FirstFailure /\ (last.sent <=> FirstFailure = "")))

\* While the call for one identifier is in flight, a create-order has issued
\* another identifier, and a confirm for that one has just been forwarded.
C17_Witness ==
  /\ last.op = "confirm"
  /\ last.sent
  /\ \E call \in BagToSet(inflight) :
       /\ call.orderId # ReqId.str
       /\ call.orderId \in DOMAIN orders
       /\ orders[call.orderId].createdAt < orders[ReqId.str].createdAt

\* The signature /confirm recomputes for the stored record of identifier id
\* (server.js:146-147): over the record's amount and orderName and the
\* timestamp and nonce segments of the identifier.
RecomputedSig(id) ==
  LET parts == Split(id, "_")
  IN  hmacSign(signPayload(orders[id].amount, orders[id].orderName, parts[2], parts[3]))

\* C18: every stored record is keyed by an identifier of four segments, the
\* prefix, the record's createdAt, a nonce, and the signature of the
\* record's own amount and orderName with that timestamp and nonce; and no
\* confirm is answered ORDER_TAMPERED.
C18_StoredKeyIsSigned ==
  /\ \A id \in DOMAIN orders :
       LET parts == Split(id, "_")
       IN  /\ Len(parts) = 4
           /\ parts[1] = PREFIX
           /\ parts[2] = NumToStr(orders[id].createdAt)
           /\ Len(parts[3]) = 2 * NONCE_BYTES
           /\ Len(parts[4]) = SIG_LEN
           /\ parts[4] = RecomputedSig(id)
  /\ last.op = "confirm" => last.resp.code # "ORDER_TAMPERED"

\* A complete confirm found the record of the identifier it presents, with
\* an order name that is not the one the request for it carried, and went
\* past the signature check: it was answered AMOUNT_MISMATCH.
C18_Witness ==
  /\ CompleteConfirm
  /\ PresentsStored
  /\ orders[ReqId.str].orderName = <<>>
  /\ Split(ReqId.str, "_")[4] = RecomputedSig(ReqId.str)
  /\ last.resp.code = "AMOUNT_MISMATCH"

\* C19: every stored record has an amount in 1..MAX_AMOUNT and an orderName
\* of at most NAME_MAX_LEN characters; and the amount a successful
\* create-order stores is the value toIntAmount returned for the request,
\* which is integral.
C19_RecordInRange ==
  /\ [] (\A id \in DOMAIN orders :
           /\ orders[id].amount \in 1..MAX_AMOUNT
           /\ Len(orders[id].orderName) <= NAME_MAX_LEN)
  /\ [][(last'.op = "create-order" /\ last'.resp.ok) =>
          LET parsed == toIntAmount(last'.req.amount)
          IN  /\ parsed.kind = "number"
              /\ parsed.num % 10 = 0
              /\ 10 * orders'[last'.resp.orderId].amount = parsed.num]_vars

\* The store holds a record whose orderName has exactly NAME_MAX_LEN
\* characters, cut from a longer one.
C19_Witness ==
  \E id \in DOMAIN orders :
    /\ Len(orders[id].orderName) = NAME_MAX_LEN
    /\ orders[id].orderName = SubSeq(LONG_NAME, 1, NAME_MAX_LEN)

====
